---- MODULE Spec2Model ----
(***************************************************************************)
(* A model of the MATLAB MCP server (src/main.py): the artifact directory, *)
(* the single interpreter (open figures, global workspace, diary state)    *)
(* and the boundary operations that create, read, check and run artifacts. *)
(*                                                                         *)
(* Python strings are sequences of one-character strings, so that the      *)
(* string operations of the code (endswith, slicing, replace, isalnum,     *)
(* strip, startswith, newline translation) are computed, not assumed.      *)
(* A Python dict is a function whose domain is a set of such strings.      *)
(***************************************************************************)
EXTENDS Integers, Sequences, FiniteSets, TLC

VARIABLES fs, eng, last, created, inflight

vars == <<fs, eng, last, created, inflight>>

(***************************************************************************)
(* Bounds of the model.                                                    *)
(***************************************************************************)
\* Most console characters one file accumulates before further capture into it
\* is no longer explored.
MaxOutput == 2
\* Figure numbers a script opens are drawn from 1..MaxFig.
MaxFig == 2
\* Longest sequence among the values handed to _convert_to_matlab_types.
MaxSeqLen == 2

(***************************************************************************)
(* Program constants and string literals of the source.                    *)
(***************************************************************************)
MAX_OUTPUT_LENGTH == 1000
MATLAB_DIR == <<"s", "r", "c">>

DotM == <<".", "m">>
DotPng == <<".", "p", "n", "g">>
TempOutputPrefix == <<"t", "e", "m", "p", "_", "o", "u", "t", "p", "u", "t", "_">>
TempFigPrefix == <<"t", "e", "m", "p", "_", "f", "i", "g", "_">>
TempSyntaxCheckName ==
    <<"t", "e", "m", "p", "_", "s", "y", "n", "t", "a", "x", "_", "c", "h", "e", "c", "k", ".", "m">>
FunctionKeyword == <<"f", "u", "n", "c", "t", "i", "o", "n">>
TestIdentifier == <<"t", "e", "s", "t">>
VerIdentifier == <<"v", "e", "r">>
ArgsName == <<"a", "r", "g", "s">>
NoOutputCaptured ==
    <<"N", "o", " ", "o", "u", "t", "p", "u", "t", " ", "c", "a", "p", "t", "u", "r", "e", "d">>
TruncatedMarker ==
    <<".", ".", ".", " ", "[", "t", "r", "u", "n", "c", "a", "t", "e", "d", "]">>
ExecutionErrorPrefix ==
    <<"M", "A", "T", "L", "A", "B", " ", "e", "x", "e", "c", "u", "t", "i", "o", "n", " ",
      "e", "r", "r", "o", "r", ":", " ">>
FileExecutionErrorPrefix ==
    <<"M", "A", "T", "L", "A", "B", " ", "f", "i", "l", "e", " ", "e", "x", "e", "c", "u", "t",
      "i", "o", "n", " ", "e", "r", "r", "o", "r", ":", " ">>
TestExecutionErrorPrefix ==
    <<"T", "e", "s", "t", " ", "e", "x", "e", "c", "u", "t", "i", "o", "n", " ",
      "e", "r", "r", "o", "r", ":", " ">>
TestFallbackNotice ==
    <<"T", "e", "s", "t", " ", "e", "x", "e", "c", "u", "t", "e", "d", " ", "a", "s", " ",
      "s", "c", "r", "i", "p", "t", " ", "(", "n", "o", " ", "f", "o", "r", "m", "a", "l", " ",
      "t", "e", "s", "t", " ", "f", "r", "a", "m", "e", "w", "o", "r", "k", " ",
      "d", "e", "t", "e", "c", "t", "e", "d", ")">>
InvalidFilenameMsg ==
    <<"F", "i", "l", "e", "n", "a", "m", "e", " ", "m", "u", "s", "t", " ", "c", "o", "n",
      "t", "a", "i", "n", " ", "o", "n", "l", "y", " ", "l", "e", "t", "t", "e", "r", "s",
      ",", " ", "n", "u", "m", "b", "e", "r", "s", ",", " ", "a", "n", "d", " ",
      "u", "n", "d", "e", "r", "s", "c", "o", "r", "e", "s">>
NotFoundSuffix == <<".", "m", " ", "n", "o", "t", " ", "f", "o", "u", "n", "d">>
ScriptWord == <<"S", "c", "r", "i", "p", "t", " ">>
FunctionWord == <<"F", "u", "n", "c", "t", "i", "o", "n", " ">>
FileNotFoundPrefix ==
    <<"M", "A", "T", "L", "A", "B", " ", "f", "i", "l", "e", " ", "n", "o", "t", " ",
      "f", "o", "u", "n", "d", ":", " ">>
VerErrorPrefix ==
    <<"E", "r", "r", "o", "r", " ", "g", "e", "t", "t", "i", "n", "g", " ",
      "v", "e", "r", " ", "o", "u", "t", "p", "u", "t", ":", " ">>
TestNotFoundPrefix ==
    <<"T", "e", "s", "t", " ", "f", "i", "l", "e", " ", "n", "o", "t", " ",
      "f", "o", "u", "n", "d", ":", " ">>

\* Keys of the result records the operations build.
K_printed_output == <<"p", "r", "i", "n", "t", "e", "d", "_", "o", "u", "t", "p", "u", "t">>
K_figures == <<"f", "i", "g", "u", "r", "e", "s">>
K_output == <<"o", "u", "t", "p", "u", "t">>
K_error == <<"e", "r", "r", "o", "r">>
K_syntax_valid == <<"s", "y", "n", "t", "a", "x", "_", "v", "a", "l", "i", "d">>
K_ver_output == <<"v", "e", "r", "_", "o", "u", "t", "p", "u", "t">>
K_test_name == <<"t", "e", "s", "t", "_", "n", "a", "m", "e">>
K_passed == <<"p", "a", "s", "s", "e", "d">>
K_failed == <<"f", "a", "i", "l", "e", "d">>
K_total == <<"t", "o", "t", "a", "l">>
K_filename == <<"f", "i", "l", "e", "n", "a", "m", "e">>
K_file_created == <<"f", "i", "l", "e", "_", "c", "r", "e", "a", "t", "e", "d">>
K_content_matches ==
    <<"c", "o", "n", "t", "e", "n", "t", "_", "m", "a", "t", "c", "h", "e", "s">>

(***************************************************************************)
(* Python string operations.                                               *)
(***************************************************************************)
AsciiLetters ==
    {"a", "b", "c", "d", "e", "f", "g", "h", "i", "j", "k", "l", "m", "n", "o", "p", "q",
     "r", "s", "t", "u", "v", "w", "x", "y", "z",
     "A", "B", "C", "D", "E", "F", "G", "H", "I", "J", "K", "L", "M", "N", "O", "P", "Q",
     "R", "S", "T", "U", "V", "W", "X", "Y", "Z"}
DecimalDigits == <<"0", "1", "2", "3", "4", "5", "6", "7", "8", "9">>
AsciiDigits == {DecimalDigits[i] : i \in DOMAIN DecimalDigits}
\* "CR" and "LF" stand for the carriage-return and line-feed characters.
Whitespace == {" ", "TAB", "CR", "LF"}

\* s.endswith(suffix)
EndsWith(s, suffix) ==
    /\ Len(s) >= Len(suffix)
    /\ SubSeq(s, Len(s) - Len(suffix) + 1, Len(s)) = suffix

\* s.startswith(prefix)
StartsWith(s, prefix) ==
    /\ Len(s) >= Len(prefix)
    /\ SubSeq(s, 1, Len(prefix)) = prefix

\* s.replace(old, new) for a one-character old
RECURSIVE Replace(_, _, _)
Replace(s, old, new) ==
    IF s = <<>> THEN <<>>
    ELSE (IF Head(s) = old THEN new ELSE <<Head(s)>>) \o Replace(Tail(s), old, new)

\* s.isalnum(): at least one character, all of them letters or digits
IsAlnum(s) ==
    /\ Len(s) > 0
    /\ \A i \in DOMAIN s : s[i] \in AsciiLetters \cup AsciiDigits

RECURSIVE LStrip(_)
LStrip(s) ==
    IF s # <<>> /\ Head(s) \in Whitespace THEN LStrip(Tail(s)) ELSE s

RECURSIVE RStrip(_)
RStrip(s) ==
    IF s # <<>> /\ s[Len(s)] \in Whitespace THEN RStrip(SubSeq(s, 1, Len(s) - 1)) ELSE s

\* s.strip()
Strip(s) == RStrip(LStrip(s))

\* The characters in code-point order, as sorted() and the interpreter's
\* "who" order names.
CharOrder ==
    <<" ", "-", ".", "/", "0", "1", "2", "3", "4", "5", "6", "7", "8", "9",
      "A", "B", "C", "D", "E", "F", "G", "H", "I", "J", "K", "L", "M", "N", "O", "P", "Q",
      "R", "S", "T", "U", "V", "W", "X", "Y", "Z", "_",
      "a", "b", "c", "d", "e", "f", "g", "h", "i", "j", "k", "l", "m", "n", "o", "p", "q",
      "r", "s", "t", "u", "v", "w", "x", "y", "z">>
CharRank(c) == CHOOSE i \in DOMAIN CharOrder : CharOrder[i] = c

RECURSIVE StrLess(_, _)
StrLess(a, b) ==
    IF a = <<>> THEN b # <<>>
    ELSE IF b = <<>> THEN FALSE
    ELSE IF Head(a) = Head(b) THEN StrLess(Tail(a), Tail(b))
    ELSE CharRank(Head(a)) < CharRank(Head(b))

\* sorted(S) for a set of strings
RECURSIVE Sorted(_)
Sorted(S) ==
    IF S = {} THEN <<>>
    ELSE LET m == CHOOSE a \in S : \A b \in S \ {a} : StrLess(a, b)
         IN <<m>> \o Sorted(S \ {m})

\* str(i) for a one-digit index
DecimalStr(i) == <<DecimalDigits[i + 1]>>

(***************************************************************************)
(* Text-mode file input and output.  Writing in text mode translates each  *)
(* line feed to os.linesep; reading in text mode (newline=None) turns      *)
(* CR LF and a lone CR into LF.                                            *)
(***************************************************************************)
\* os.linesep of the platform the server runs on (POSIX).
LineSep == <<"LF">>

\* f.write(code) on a file opened with mode 'w'; Path.write_text(code)
WriteText(code) == Replace(code, "LF", LineSep)

\* f.read() on a file opened with mode 'r'; Path.read_text()
RECURSIVE ReadText(_)
ReadText(bytes) ==
    IF bytes = <<>> THEN <<>>
    ELSE IF Head(bytes) = "CR"
         THEN IF Len(bytes) >= 2 /\ bytes[2] = "LF"
              THEN <<"LF">> \o ReadText(Tail(Tail(bytes)))
              ELSE <<"LF">> \o ReadText(Tail(bytes))
         ELSE <<Head(bytes)>> \o ReadText(Tail(bytes))

(***************************************************************************)
(* The artifact directory MATLAB_DIR: a function from file names to the    *)
(* stored characters.                                                      *)
(***************************************************************************)
\* MATLAB_DIR / name
InDir(name) == MATLAB_DIR \o <<"/">> \o name

\* Path.is_absolute()
IsAbsolute(path) == path # <<>> /\ Head(path) = "/"

\* The index of the last occurrence of c in s, 0 if there is none (s.rfind(c) + 1).
LastIndexOf(s, c) ==
    IF \E i \in DOMAIN s : s[i] = c
    THEN CHOOSE i \in DOMAIN s : s[i] = c /\ \A j \in DOMAIN s : s[j] = c => j <= i
    ELSE 0

\* Path.name: the final component
PathName(path) == SubSeq(path, LastIndexOf(path, "/") + 1, Len(path))

\* Path.stem: the final component without its last suffix
PathStem(path) ==
    LET name == PathName(path)
        i == LastIndexOf(name, ".")
    IN IF 1 < i /\ i < Len(name) THEN SubSeq(name, 1, i - 1) ELSE name

Exists(F, path) == path \in DOMAIN F

WriteFile(F, path, bytes) ==
    [q \in DOMAIN F \cup {path} |-> IF q = path THEN bytes ELSE F[q]]

\* path.unlink(missing_ok=True)
Unlink(F, path) == [q \in DOMAIN F \ {path} |-> F[q]]

\* The interpreter appends console text to the diary file, creating it if absent.
AppendFile(F, path, bytes) ==
    WriteFile(F, path, (IF Exists(F, path) THEN F[path] ELSE <<>>) \o bytes)

(***************************************************************************)
(* Python dicts and exceptions.                                            *)
(***************************************************************************)
EmptyDict == [k \in {} |-> 0]

DictSet(d, k, v) == [q \in DOMAIN d \cup {k} |-> IF q = k THEN v ELSE d[q]]

\* d.update(e)
DictUpdate(d, e) == [q \in DOMAIN d \cup DOMAIN e |-> IF q \in DOMAIN e THEN e[q] ELSE d[q]]

NoExc == [type |-> "none", msg |-> <<>>]
Exc(type, msg) == [type |-> type, msg |-> msg]

(***************************************************************************)
(* Python values and their conversion to interpreter values.               *)
(* A value is a record tagged by its type: none, bool (b), int (n), str    *)
(* (s: the characters), list (items: a sequence of values), dict (d: a     *)
(* function from keys to values), and double (a: the numbers), the         *)
(* interpreter's dense numeric array.                                      *)
(***************************************************************************)
None == [t |-> "none"]
PyBool(b) == [t |-> "bool", b |-> b]
PyInt(n) == [t |-> "int", n |-> n]
PyStr(s) == [t |-> "str", s |-> s]
PyList(s) == [t |-> "list", items |-> s]
PyDict(d) == [t |-> "dict", d |-> d]
MatlabDouble(s) == [t |-> "double", a |-> s]

\* isinstance(x, (int, float)): bool is a subclass of int
IsNumber(x) == x.t \in {"int", "bool"}

\* The number a dense array stores for x.
NumberOf(x) == IF x.t = "bool" THEN (IF x.b THEN 1 ELSE 0) ELSE x.n

\* bool(x) as tested by "if args:"
Truthy(x) ==
    CASE x.t = "none" -> FALSE
      [] x.t = "bool" -> x.b
      [] x.t = "int" -> x.n # 0
      [] x.t = "str" -> x.s # <<>>
      [] x.t = "list" -> x.items # <<>>
      [] x.t = "dict" -> DOMAIN x.d # {}
      [] OTHER -> TRUE

RECURSIVE _convert_to_matlab_types(_)
_convert_to_matlab_types(args) ==
    CASE args.t = "dict" ->
           PyDict([k \in DOMAIN args.d |-> _convert_to_matlab_types(args.d[k])])
      [] args.t = "list" ->
           IF \A i \in DOMAIN args.items : IsNumber(args.items[i])
           THEN MatlabDouble([i \in DOMAIN args.items |-> NumberOf(args.items[i])])
           ELSE PyList([i \in DOMAIN args.items |->
                           _convert_to_matlab_types(args.items[i])])
      [] IsNumber(args) -> MatlabDouble(<<NumberOf(args)>>)
      [] OTHER -> args

\* str(val) of a value read back from the workspace
StrOf(val) ==
    IF val.t = "str" THEN val.s ELSE <<"<">> \o <<val.t>> \o <<">">>

(***************************************************************************)
(* The interpreter.  A world W is the directory together with the          *)
(* interpreter's state while one operation runs:                           *)
(*   fs         the directory                                              *)
(*   figs       numbers of the open figures                                *)
(*   ws         the global workspace, variable name -> value               *)
(*   diaryOn    whether console output is being logged                     *)
(*   diaryFile  the file it is logged to                                   *)
(*   stale      the open figures that were open when the operation began   *)
(*   calls      instructions sent to the interpreter by the operation      *)
(*   raised     the instructions of the operation the interpreter raised in *)
(*   trace      the handlers the operation entered and the code it had the *)
(*              interpreter run, in order                                  *)
(* An instruction of the operation raises when the behaviour x drawn for   *)
(* the invocation names it as x.fault; "diary off" has no failure of its   *)
(* own in a live interpreter.  A step yields an outcome: the world after   *)
(* it, the exception it raised (NoExc if none) and its value.              *)
(***************************************************************************)
InterpreterMsg == <<"b", "o", "o", "m">>
MatlabError == Exc("MatlabExecutionError", InterpreterMsg)

Ok(W, v) == [W |-> W, exc |-> NoExc, val |-> v]
Err(W, e) == [W |-> W, exc |-> e, val |-> None]
Failed(r) == r.exc.type # "none"

Sent(W) == [W EXCEPT !.calls = @ + 1]

\* An entry of the trace: handler e entered with name and args, or the
\* interpreter asked to run name ("eval") or to call it with args ("call");
\* with the logging state and the binding of the workspace name args at
\* that moment, and the console text the code run writes.  The entries
\* "captured" and "figures" hold what _read_captured_output returned (out)
\* and what _capture_figures returned (args).
Event(e, name, args, W, out) ==
    [e |-> e, name |-> name, args |-> args, out |-> out,
     diaryOn |-> W.diaryOn, diaryFile |-> W.diaryFile,
     bound |-> IF ArgsName \in DOMAIN W.ws THEN W.ws[ArgsName] ELSE None]

Log(W, ev) == [W EXCEPT !.trace = Append(@, ev)]
Raising(W, step) == [W EXCEPT !.calls = @ + 1, !.raised = @ \cup {step}]

\* self.eng.close('all', nargout=0)
EngCloseAll(W, x) ==
    IF x.fault = "close" THEN Err(Raising(W, "close"), MatlabError)
    ELSE Ok([Sent(W) EXCEPT !.figs = {}, !.stale = {}], None)

\* self.eng.workspace[name] = value
EngSetWorkspace(W, x, name, value) ==
    IF x.fault = "bind" THEN Err(Raising(W, "bind"), MatlabError)
    ELSE Ok([Sent(W) EXCEPT !.ws = DictSet(@, name, value)], None)

\* self.eng.eval("diary('<temp_file>')"): logging starts; the interpreter
\* creates the file at once (x.eager) or with the first console text.
EngDiary(W, x, temp_file) ==
    IF x.fault = "diary" THEN Err(Raising(W, "diary"), MatlabError)
    ELSE Ok([Sent(W) EXCEPT !.diaryOn = TRUE, !.diaryFile = temp_file,
                            !.fs = IF x.eager THEN AppendFile(@, temp_file, <<>>) ELSE @],
            None)

\* self.eng.eval("diary off")
EngDiaryOff(W) == [Sent(W) EXCEPT !.diaryOn = FALSE]

\* The interpreter runs the code of an artifact: its console text x.out goes
\* to the diary file while logging is on, it opens the figures x.figs and
\* assigns the variables x.sets; with x.fault = "eval" it then raises.
EngRun(W, x, name) ==
    LET W1 == [Log(W, Event("eval", name, None, W, x.out)) EXCEPT
                 !.fs = IF W.diaryOn /\ x.out # <<>>
                        THEN AppendFile(@, W.diaryFile, x.out) ELSE @,
                 !.figs = @ \cup x.figs,
                 !.ws = DictUpdate(@, x.sets)]
    IN IF x.fault = "eval" THEN Err(Raising(W1, "eval"), MatlabError)
       ELSE Ok(Sent(W1), x.ret)

\* getattr(self.eng, function_name)(*matlab_args): as EngRun, but the
\* variables a function assigns are local to it.
EngCall(W, x, name, args) ==
    LET W1 == [Log(W, Event("call", name, args, W, x.out)) EXCEPT
                 !.fs = IF W.diaryOn /\ x.out # <<>>
                        THEN AppendFile(@, W.diaryFile, x.out) ELSE @,
                 !.figs = @ \cup x.figs]
    IN IF x.fault = "eval" THEN Err(Raising(W1, "eval"), MatlabError)
       ELSE Ok(Sent(W1), x.ret)

\* self.eng.eval('ver', nargout=0): the version listing x.out goes to the console.
EngVer(W, x) ==
    LET W1 == [W EXCEPT
                 !.fs = IF W.diaryOn /\ x.out # <<>>
                        THEN AppendFile(@, W.diaryFile, x.out) ELSE @]
    IN IF x.fault = "eval" THEN Err(Raising(W1, "eval"), MatlabError)
       ELSE Ok(Sent(W1), None)

\* self.eng.eval("checkcode('<temp_file>', '-string')"): nothing is executed.
EngCheckcode(W, x) ==
    IF x.fault = "checkcode" THEN Err(Raising(W, "checkcode"), MatlabError)
    ELSE Ok(Sent(W), None)

\* self.eng.eval("runtests('<test_name>')", nargout=1): the runner raises
\* (x.runtests = "raise"), or it runs the tests and returns a value with a
\* Passed attribute ("results") or without one ("opaque").
EngRuntests(W, x) ==
    IF x.runtests = "raise" THEN Err(Raising(W, "runtests"), MatlabError)
    ELSE LET W1 == [W EXCEPT
                      !.fs = IF W.diaryOn /\ x.out # <<>>
                             THEN AppendFile(@, W.diaryFile, x.out) ELSE @,
                      !.figs = @ \cup x.figs]
         IN Ok(Sent(W1), x.runtests)

\* self.eng.eval('get(groot, "Children")', nargout=1)
EngChildren(W, x) ==
    IF x.fault = "children" THEN Err(Raising(W, "children"), MatlabError)
    ELSE Ok(Sent(W), W.figs)

\* The bytes of the image of figure n.
PngOf(W, n) ==
    <<"PNG", DecimalDigits[n + 1], IF n \in W.stale THEN "stale" ELSE "fresh">>

\* self.eng.eval("saveas(figure(n), '<temp_file>')"): figure(n) opens figure n
\* when it is not open; a failing saveas may leave a partial file
\* (x.fault = "saveas_partial") or none (x.fault = "saveas").
EngSaveas(W, x, n, temp_file) ==
    LET W1 == [W EXCEPT !.figs = @ \cup {n}]
    IN CASE x.fault = "saveas" -> Err(Raising(W1, "saveas"), MatlabError)
         [] x.fault = "saveas_partial" ->
              Err([Raising(W1, "saveas") EXCEPT !.fs = WriteFile(@, temp_file, <<"PNG">>)],
                  MatlabError)
         [] OTHER ->
              Ok([Sent(W1) EXCEPT !.fs = WriteFile(@, temp_file, PngOf(W1, n))], None)

\* self.eng.eval('who', nargout=1)
EngWho(W, x) ==
    IF x.fault = "who" THEN Err(Raising(W, "who"), MatlabError)
    ELSE Ok(Sent(W), DOMAIN W.ws)

(***************************************************************************)
(* MATLABExecutor: output capture.                                         *)
(***************************************************************************)
TempOutputFile(identifier) == InDir(TempOutputPrefix \o identifier \o DotM)

\* _output_capture, entering the with block: the diary is started.
OutputCaptureEnter(W, x, identifier) == EngDiary(W, x, TempOutputFile(identifier))

\* _output_capture without its finally clause: "diary off" only after a body
\* that did not raise.
OutputCaptureExitNoFinally(r) ==
    IF Failed(r) THEN r ELSE [r EXCEPT !.W = EngDiaryOff(@)]

\* _output_capture, leaving the with block with the outcome r of the diary
\* start or of the body: the finally clause sends "diary off" on every path.
OutputCaptureExit(r) == [r EXCEPT !.W = EngDiaryOff(@)]

_read_captured_output(W, temp_file) ==
    IF Exists(W.fs, temp_file)
    THEN Ok([Log(W, Event("captured", temp_file, None, W, Strip(ReadText(W.fs[temp_file]))))
                EXCEPT !.fs = Unlink(@, temp_file)],
            Strip(ReadText(W.fs[temp_file])))
    ELSE Ok(Log(W, Event("captured", temp_file, None, W, NoOutputCaptured)),
            NoOutputCaptured)

(***************************************************************************)
(* MATLABExecutor: figures.                                                *)
(***************************************************************************)
TempFigFile(i) == InDir(TempFigPrefix \o DecimalStr(i) \o DotPng)

\* One iteration of the loop of _capture_figures, for index i: save, read the
\* bytes, and unlink the file in the finally clause.
CaptureOneFigure(W, x, i) ==
    LET temp_file == TempFigFile(i)
        s == EngSaveas(W, x, i + 1, temp_file)
        done == [s.W EXCEPT !.fs = Unlink(@, temp_file)]
    IN IF Failed(s) THEN Err(done, s.exc)
       ELSE Ok(done, s.W.fs[temp_file])

\* The loop of _capture_figures from index i, with the images gathered so far.
RECURSIVE CaptureFiguresFrom(_, _, _, _, _)
CaptureFiguresFrom(W, x, i, n, figures) ==
    IF i >= n THEN Ok(Log(W, Event("figures", <<>>, figures, W, <<>>)), figures)
    ELSE LET r == CaptureOneFigure(W, x, i)
         IN IF Failed(r) THEN r
            ELSE CaptureFiguresFrom(r.W, x, i + 1, n, Append(figures, r.val))

_capture_figures(W, x) ==
    LET h == EngChildren(W, x)
    IN IF Failed(h) THEN h
       ELSE IF h.val = {} THEN Ok(Log(h.W, Event("figures", <<>>, <<>>, h.W, <<>>)), <<>>)
       ELSE CaptureFiguresFrom(h.W, x, 0, Cardinality(h.val), <<>>)

(***************************************************************************)
(* MATLABExecutor: the workspace snapshot.                                 *)
(***************************************************************************)
\* Truncate cutting from MAX_OUTPUT_LENGTH characters on.
Truncate_FromLimit(val_str) ==
    IF Len(val_str) >= MAX_OUTPUT_LENGTH
    THEN SubSeq(val_str, 1, MAX_OUTPUT_LENGTH) \o TruncatedMarker
    ELSE val_str

Truncate(val_str) ==
    IF Len(val_str) > MAX_OUTPUT_LENGTH
    THEN SubSeq(val_str, 1, MAX_OUTPUT_LENGTH) \o TruncatedMarker
    ELSE val_str

\* The loop of _get_workspace_variables over the names still to visit.
RECURSIVE SnapshotFrom(_, _, _, _)
SnapshotFrom(W, var_names, exclude, variables) ==
    IF var_names = <<>> THEN Ok(W, variables)
    ELSE LET var == Head(var_names)
         IN IF var \in exclude
            THEN SnapshotFrom(W, Tail(var_names), exclude, variables)
            ELSE LET val_str == Truncate(StrOf(W.ws[var]))
                     clean_var_name == Replace(Strip(var), " ", <<"_">>)
                 IN SnapshotFrom(Sent(W), Tail(var_names), exclude,
                                 DictSet(variables, clean_var_name, val_str))

\* _get_workspace_variables with nothing excluded.
_get_workspace_variables_NoExclude(W, x) ==
    LET names == EngWho(W, x)
    IN IF Failed(names) THEN names
       ELSE SnapshotFrom(names.W, Sorted(names.val), {}, EmptyDict)

_get_workspace_variables(W, x) ==
    LET names == EngWho(W, x)
    IN IF Failed(names) THEN names
       ELSE SnapshotFrom(names.W, Sorted(names.val), {ArgsName}, EmptyDict)

(***************************************************************************)
(* MATLABExecutor: execute_script, call_function, run_file.                *)
(* A handler is a chain of stages; each stage takes the outcome of the     *)
(* statement before it and, unless that raised, carries out the next one.  *)
(***************************************************************************)
\* The except clause of execute_script and call_function: any exception of
\* the try block is raised again as a RuntimeError with the message embedded.
WrapExecutionError(body) ==
    IF Failed(body)
    THEN Err(body.W, Exc("RuntimeError", ExecutionErrorPrefix \o body.exc.msg))
    ELSE body

\* The with block around the evaluation of a script: e is the outcome of
\* starting the diary.
CapturedScript(e, x, script_name) ==
    OutputCaptureExit(IF Failed(e) THEN e ELSE EngRun(e.W, x, script_name))

\* result.update(self._get_workspace_variables())
ScriptSnapshot(p, f, v) ==
    IF Failed(v) THEN v
    ELSE Ok(v.W, DictUpdate(DictSet(DictSet(EmptyDict, K_printed_output, p.val),
                                    K_figures, f.val),
                            v.val))

\* result['figures'] = self._capture_figures()
ScriptFigures(p, f, x) ==
    IF Failed(f) THEN f ELSE ScriptSnapshot(p, f, _get_workspace_variables(f.W, x))

\* result['printed_output'] = self._read_captured_output(temp_file)
ScriptOutput(cap, script_name, x) ==
    IF Failed(cap) THEN cap
    ELSE ScriptFigures(_read_captured_output(cap.W, TempOutputFile(script_name)),
                       _capture_figures(
                           _read_captured_output(cap.W, TempOutputFile(script_name)).W, x),
                       x)

\* with self._output_capture(script_name) as temp_file: self.eng.eval(script_name)
ScriptCapture(b, script_name, x) ==
    IF Failed(b) THEN b
    ELSE ScriptOutput(CapturedScript(OutputCaptureEnter(b.W, x, script_name), x,
                                     script_name),
                      script_name, x)

\* The try block of execute_script binding args whether given or not.
ExecuteScriptBody_AlwaysBind(W, script_name, args, x) ==
    ScriptCapture(EngSetWorkspace(W, x, ArgsName, _convert_to_matlab_types(args)),
                  script_name, x)

\* The try block of execute_script, from "if args:".
ExecuteScriptBody(W, script_name, args, x) ==
    ScriptCapture(IF Truthy(args)
                  THEN EngSetWorkspace(W, x, ArgsName, _convert_to_matlab_types(args))
                  ELSE Ok(W, None),
                  script_name, x)

\* execute_script after self.eng.close('all'), whose outcome is c.
ExecuteScriptClosed(c, script_name, args, x) ==
    IF Failed(c) THEN c
    ELSE WrapExecutionError(ExecuteScriptBody(c.W, script_name, args, x))

\* execute_script with close('all') sent before the existence check.
execute_script_CloseFirst(W, script_name, args, x) ==
    IF ~Exists(W.fs, InDir(script_name \o DotM))
    THEN Err(EngCloseAll(Log(W, Event("execute_script", script_name, args, W, <<>>)), x).W,
             Exc("FileNotFoundError", ScriptWord \o script_name \o NotFoundSuffix))
    ELSE ExecuteScriptClosed(
             EngCloseAll(Log(W, Event("execute_script", script_name, args, W, <<>>)), x),
             script_name, args, x)

\* execute_script without close('all').
execute_script_NoClose(W, script_name, args, x) ==
    IF ~Exists(W.fs, InDir(script_name \o DotM))
    THEN Err(Log(W, Event("execute_script", script_name, args, W, <<>>)),
             Exc("FileNotFoundError", ScriptWord \o script_name \o NotFoundSuffix))
    ELSE WrapExecutionError(ExecuteScriptBody(
             Log(W, Event("execute_script", script_name, args, W, <<>>)),
             script_name, args, x))

execute_script(W, script_name, args, x) ==
    IF ~Exists(W.fs, InDir(script_name \o DotM))
    THEN Err(Log(W, Event("execute_script", script_name, args, W, <<>>)),
             Exc("FileNotFoundError", ScriptWord \o script_name \o NotFoundSuffix))
    ELSE ExecuteScriptClosed(
             EngCloseAll(Log(W, Event("execute_script", script_name, args, W, <<>>)), x),
             script_name, args, x)

\* The with block around the call of a function.
CapturedCall(e, x, function_name, matlab_args) ==
    OutputCaptureExit(IF Failed(e) THEN e ELSE EngCall(e.W, x, function_name, matlab_args))

\* result['figures'] = self._capture_figures()
FunctionFigures(cap, p, f) ==
    IF Failed(f) THEN f
    ELSE Ok(f.W, DictSet(DictSet(DictSet(EmptyDict, K_output, StrOf(cap.val)),
                                 K_printed_output, p.val),
                         K_figures, f.val))

\* result['output'] = str(output) and the reading of the captured output
FunctionOutput(cap, function_name, x) ==
    IF Failed(cap) THEN cap
    ELSE FunctionFigures(cap,
                         _read_captured_output(cap.W, TempOutputFile(function_name)),
                         _capture_figures(
                             _read_captured_output(cap.W, TempOutputFile(function_name)).W,
                             x))

\* The arguments of a call, each converted on its own.
MatlabArgs(args) == [i \in DOMAIN args |-> _convert_to_matlab_types(args[i])]

\* The try block of call_function.
CallFunctionBody(W, function_name, args, x) ==
    FunctionOutput(CapturedCall(OutputCaptureEnter(W, x, function_name), x,
                                function_name, MatlabArgs(args)),
                   function_name, x)

\* call_function after self.eng.close('all'), whose outcome is c.
CallFunctionClosed(c, function_name, args, x) ==
    IF Failed(c) THEN c
    ELSE WrapExecutionError(CallFunctionBody(c.W, function_name, args, x))

call_function(W, function_name, args, x) ==
    IF ~Exists(W.fs, InDir(function_name \o DotM))
    THEN Err(Log(W, Event("call_function", function_name, args, W, <<>>)),
             Exc("FileNotFoundError", FunctionWord \o function_name \o NotFoundSuffix))
    ELSE CallFunctionClosed(
             EngCloseAll(Log(W, Event("call_function", function_name, args, W, <<>>)), x),
             function_name, args, x)

\* The positional arguments run_file passes to a function.
ArgsList(args) ==
    IF Truthy(args)
    THEN IF args.t = "dict"
         THEN [i \in DOMAIN Sorted(DOMAIN args.d) |-> args.d[Sorted(DOMAIN args.d)[i]]]
         ELSE <<args>>
    ELSE <<>>

\* matlab_file of run_file and test_file of run_matlab_test_file
NormalizedPath(file_path) ==
    IF ~EndsWith(file_path, DotM)
    THEN (IF ~IsAbsolute(file_path \o DotM) THEN InDir(file_path \o DotM)
          ELSE file_path \o DotM)
    ELSE (IF ~IsAbsolute(file_path) THEN InDir(file_path) ELSE file_path)

\* is_function = content.strip().startswith('function')
IsFunctionFile(W, matlab_file) ==
    StartsWith(Strip(ReadText(W.fs[matlab_file])), FunctionKeyword)

\* The except clause of run_file: r is the outcome of the delegated call.
FileResult(r) ==
    IF Failed(r)
    THEN Ok(r.W, DictSet(EmptyDict, K_error, FileExecutionErrorPrefix \o r.exc.msg))
    ELSE r

\* run_file delegating to execute_script whatever the file holds.
RunFileDispatch_AlwaysScript(W, file_path, args, x) ==
    FileResult(execute_script(W, PathStem(NormalizedPath(file_path)), args, x))

\* content = matlab_file.read_text(): the trace records the file read.
ReadMatlabFile(W, matlab_file) == Log(W, Event("read_text", matlab_file, None, W, <<>>))

\* run_file after the existence check, in the world W whose trace holds the
\* entry of run_file.
RunFileDispatch(W, file_path, args, x) ==
    FileResult(IF IsFunctionFile(W, NormalizedPath(file_path))
               THEN call_function(ReadMatlabFile(W, NormalizedPath(file_path)),
                                  PathStem(NormalizedPath(file_path)), ArgsList(args), x)
               ELSE execute_script(ReadMatlabFile(W, NormalizedPath(file_path)),
                                   PathStem(NormalizedPath(file_path)), args, x))

run_file(W, file_path, args, x) ==
    IF ~Exists(W.fs, NormalizedPath(file_path))
    THEN Err(Log(W, Event("run_file", file_path, args, W, <<>>)),
             Exc("FileNotFoundError", FileNotFoundPrefix \o NormalizedPath(file_path)))
    ELSE RunFileDispatch(Log(W, Event("run_file", file_path, args, W, <<>>)),
                         file_path, args, x)

(***************************************************************************)
(* The tools and the resource.                                             *)
(***************************************************************************)
\* The text-only bracket and semicolon checks of lines 292-308 add warnings
\* and suggestions to the result and touch neither the directory nor the
\* interpreter; the result keeps syntax_valid.
CheckResult(c) ==
    Ok([c.W EXCEPT !.fs = Unlink(@, InDir(TempSyntaxCheckName))],
       DictSet(EmptyDict, K_syntax_valid, ~Failed(c)))

check_matlab_code(W, code, x) ==
    CheckResult(EngCheckcode(
        [W EXCEPT !.fs = WriteFile(@, InDir(TempSyntaxCheckName), WriteText(code))], x))

evaluate_matlab_code(W, code, variables, x) == execute_script(W, code, variables, x)

run_matlab_file(W, file_path, args, x) == run_file(W, file_path, args, x)

\* The record run_matlab_test_file starts from.
TestResult(test_name) ==
    DictSet(DictSet(DictSet(DictSet(DictSet(EmptyDict, K_test_name, test_name),
                                    K_passed, 0), K_failed, 0), K_total, 0),
            K_output, <<>>)

\* The fallback without the notice in result['output'].
TestFallback_NoNotice(s, result) ==
    IF Failed(s) THEN s ELSE Ok(s.W, result)

\* The fallback of run_matlab_test_file: s is the outcome of evaluating the
\* file as a script.
TestFallback(s, result) ==
    IF Failed(s) THEN s ELSE Ok(s.W, DictSet(result, K_output, TestFallbackNotice))

\* The inner try of run_matlab_test_file: t is the outcome of runtests.
TestRun(t, result, x) ==
    IF Failed(t) THEN TestFallback(EngRun(t.W, x, result[K_test_name]), result)
    ELSE IF t.val = "results"
         THEN Ok(t.W, DictSet(DictSet(DictSet(result, K_passed, x.passed),
                                      K_failed, x.total - x.passed),
                              K_total, x.total))
         ELSE Ok(t.W, result)

\* The with block of run_matlab_test_file: e is the outcome of starting the diary.
CapturedTest(e, result, x) ==
    OutputCaptureExit(IF Failed(e) THEN e ELSE TestRun(EngRuntests(e.W, x), result, x))

\* result['figures'] = executor._capture_figures(); when it raises, the
\* failure carries the record as it stands, for the except clause.
TestFigures(cap, p, f) ==
    IF Failed(f)
    THEN [f EXCEPT !.val = DictSet(cap.val, K_output, cap.val[K_output] \o p.val)]
    ELSE Ok(f.W, DictSet(DictSet(cap.val, K_output, cap.val[K_output] \o p.val),
                         K_figures, f.val))

\* result['output'] += executor._read_captured_output(temp_file)
TestOutput(cap, result, x) ==
    IF Failed(cap) THEN [cap EXCEPT !.val = result]
    ELSE TestFigures(cap,
                     _read_captured_output(cap.W, TempOutputFile(TestIdentifier)),
                     _capture_figures(
                         _read_captured_output(cap.W, TempOutputFile(TestIdentifier)).W, x))

\* The outer try block of run_matlab_test_file after close('all'), whose outcome is c.
TestClosed(c, result, x) ==
    IF Failed(c) THEN [c EXCEPT !.val = result]
    ELSE TestOutput(CapturedTest(OutputCaptureEnter(c.W, x, TestIdentifier), result, x),
                    result, x)

\* The outer except clause of run_matlab_test_file: a failure r carries in
\* r.val the record as it stood when the exception was raised.
TestError(r) ==
    IF Failed(r)
    THEN Ok(r.W, DictSet(DictSet(r.val, K_error, TestExecutionErrorPrefix \o r.exc.msg),
                         K_output, r.exc.msg))
    ELSE r

run_matlab_test_file(W, test_file_path, x) ==
    IF ~Exists(W.fs, NormalizedPath(test_file_path))
    THEN Err(W, Exc("FileNotFoundError",
                    TestNotFoundPrefix \o NormalizedPath(test_file_path)))
    ELSE TestError(TestClosed(EngCloseAll(W, x),
                              TestResult(PathStem(NormalizedPath(test_file_path))), x))

\* filename with ".m" added if not present
WithExtension(filename) ==
    IF ~EndsWith(filename, DotM) THEN filename \o DotM ELSE filename

\* The writing and reading back of create_matlab_file, in the world W1 that
\* holds the written file.
CreateResult(W1, filename, code) ==
    Ok(W1, DictSet(DictSet(DictSet(EmptyDict, K_filename, filename),
                           K_file_created, TRUE),
                   K_content_matches, ReadText(W1.fs[InDir(filename)]) = code))

create_matlab_file(W, filename, code) ==
    IF ~IsAlnum(Replace(SubSeq(WithExtension(filename), 1,
                               Len(WithExtension(filename)) - 2), "_", <<>>))
    THEN Err(W, Exc("ValueError", InvalidFilenameMsg))
    ELSE CreateResult([W EXCEPT !.fs = WriteFile(@, InDir(WithExtension(filename)),
                                                 WriteText(code))],
                      WithExtension(filename), code)

\* The with block of detect_matlab_toolboxes.
CapturedVer(e, x) == OutputCaptureExit(IF Failed(e) THEN e ELSE EngVer(e.W, x))

\* detect_matlab_toolboxes after the with block, whose outcome is cap.
VerResult(cap, p) ==
    IF Failed(cap)
    THEN Ok(cap.W, DictSet(EmptyDict, K_error, VerErrorPrefix \o cap.exc.msg))
    ELSE Ok(p.W, DictSet(EmptyDict, K_ver_output, p.val))

VerOutput(cap) ==
    VerResult(cap, _read_captured_output(cap.W, TempOutputFile(VerIdentifier)))

detect_matlab_toolboxes(W, x) ==
    VerOutput(CapturedVer(OutputCaptureEnter(W, x, VerIdentifier), x))

get_contents(W, script_name) ==
    IF ~Exists(W.fs, InDir(script_name \o DotM))
    THEN Err(W, Exc("FileNotFoundError", ScriptWord \o script_name \o NotFoundSuffix))
    ELSE Ok(W, ReadText(W.fs[InDir(script_name \o DotM)]))

(***************************************************************************)
(* Inputs: artifact names, code texts, arguments and the behaviour of the  *)
(* interpreter during one invocation.                                      *)
(***************************************************************************)
Name_a == <<"a">>
Name_b == <<"b">>
Name_a_m == <<"a", ".", "m">>
Name_1a == <<"1", "a">>
Name__a == <<"_", "a">>
Name_a_b == <<"a", "-", "b">>
Name_temp_output_a == TempOutputPrefix \o Name_a
Name_temp_syntax_check == <<"t", "e", "m", "p", "_", "s", "y", "n", "t", "a", "x", "_",
                            "c", "h", "e", "c", "k">>

ScriptText == <<"x">>
FunctionText == FunctionKeyword \o <<" ", "y">>
PipelineTexts == {ScriptText, FunctionText}

NoArgs == None
EmptyArgs == PyDict(EmptyDict)
SomeArgs == PyDict(DictSet(EmptyDict, <<"k">>, PyInt(1)))
TwoArgs == PyDict(DictSet(DictSet(EmptyDict, <<"k">>, PyInt(1)), <<"b">>, PyInt(2)))

\* The character the scripts of the model write to the console.
ConsoleText == <<"5">>
VarName == <<"v">>

Faults ==
    {"close", "bind", "diary", "eval", "children", "saveas", "saveas_partial", "who"}

Quiet ==
    [fault |-> "none", eager |-> FALSE, out |-> <<>>, figs |-> {}, sets |-> EmptyDict,
     ret |-> PyStr(<<"7">>), runtests |-> "results", passed |-> 1, total |-> 1]
Loud == [Quiet EXCEPT !.out = ConsoleText, !.figs = {1}]

FigChoices == {{}} \cup {{n} : n \in 1..MaxFig} \cup {1..MaxFig}

\* Runs in which no instruction raises: silent (the diary file created at
\* once or not at all) or writing to the console, and opening figures.
CleanRuns ==
    {[Quiet EXCEPT !.out = c[1], !.eager = c[2], !.figs = g] :
        c \in {<<<<>>, FALSE>>, <<<<>>, TRUE>>, <<ConsoleText, FALSE>>},
        g \in FigChoices}

\* Runs in which one instruction raises.
FaultyRuns ==
    {[Loud EXCEPT !.fault = f] : f \in Faults}
        \cup {[Quiet EXCEPT !.fault = "eval", !.eager = TRUE]}

\* A run that assigns a workspace variable.
AssigningRun == [Loud EXCEPT !.sets = DictSet(EmptyDict, VarName, PyStr(ConsoleText))]

Behaviours == CleanRuns \cup FaultyRuns

\* <<name, args, behaviour>> of the invocations of execute_script explored.
ScriptInputs ==
    {<<Name_a, NoArgs, x>> : x \in Behaviours \cup {AssigningRun}}
        \cup {<<Name_a, args, x>> :
                 args \in {EmptyArgs, SomeArgs}, x \in {Quiet, [Loud EXCEPT !.fault = "bind"]}}
        \cup {<<Name_b, NoArgs, Quiet>>}

\* <<name, args, behaviour>> of the invocations of call_function explored.
FunctionInputs ==
    {<<Name_a, <<>>, x>> : x \in Behaviours}
        \cup {<<Name_a, <<PyInt(1)>>, Quiet>>, <<Name_b, <<>>, Quiet>>}

\* <<path, args, behaviour>> of the invocations of run_matlab_file explored.
FileInputs ==
    {<<Name_a, NoArgs, x>> : x \in Behaviours}
        \cup {<<Name_a_m, NoArgs, Loud>>, <<Name_a, SomeArgs, Quiet>>,
              <<Name_a, TwoArgs, Quiet>>, <<Name_a, EmptyArgs, Quiet>>,
              <<Name_b, NoArgs, Quiet>>}

\* <<code, variables, behaviour>> of the invocations of evaluate_matlab_code explored.
EvaluateInputs ==
    {<<Name_a, NoArgs, x>> :
        x \in {Quiet, Loud, [Loud EXCEPT !.fault = "eval"], [Loud EXCEPT !.fault = "close"]}}
        \cup {<<Name_b, NoArgs, Quiet>>}

\* <<path, behaviour>> of the invocations of run_matlab_test_file explored.
TestInputs ==
    {<<Name_a, [b EXCEPT !.runtests = t]>> :
        b \in {Quiet, Loud} \cup {[Loud EXCEPT !.fault = f] :
                                    f \in {"close", "diary", "eval", "saveas"}},
        t \in {"results", "opaque", "raise"}}
        \cup {<<Name_b, Quiet>>}

\* Behaviours of the invocations of detect_matlab_toolboxes explored.
VerInputs ==
    {[Quiet EXCEPT !.out = ConsoleText, !.fault = f] : f \in {"none", "diary", "eval"}}
        \cup {[Quiet EXCEPT !.eager = TRUE]}

\* <<code, behaviour>> of the invocations of check_matlab_code explored.
CheckInputs ==
    {<<code, x>> : code \in PipelineTexts, x \in {Quiet, [Quiet EXCEPT !.fault = "checkcode"]}}

(***************************************************************************)
(* The state: the directory fs, the interpreter eng, the outcome of the    *)
(* last operation (last: the operation, the name it was given, the         *)
(* exception it raised or the value it returned, the number of             *)
(* instructions it sent to the interpreter, the instructions that raised,  *)
(* the figures that were open when it began, and its trace), and for every *)
(* name the code most recently accepted by create_matlab_file (created).   *)
(* inflight holds, for each of the invocations of execute_script that may  *)
(* be under way at the same time, how far it has come and its locals; the  *)
(* operations above run from entry to return with no invocation under way. *)
(***************************************************************************)
Procs == {1, 2}

\* No invocation under way.
Idle ==
    [pc |-> "idle", name |-> <<>>, args |-> None, x |-> Quiet, printed |-> <<>>,
     figures |-> <<>>, i |-> 0, n |-> 0, seen |-> None, result |-> EmptyDict]

World ==
    [fs |-> fs, figs |-> eng.figs, ws |-> eng.ws, diaryOn |-> eng.diaryOn,
     diaryFile |-> eng.diaryFile, stale |-> eng.figs, calls |-> 0, raised |-> {},
     trace |-> <<>>]

ConsoleChars(bytes) == Cardinality({i \in DOMAIN bytes : bytes[i] = Head(ConsoleText)})

OutputBounded(F) == \A path \in DOMAIN F : ConsoleChars(F[path]) <= MaxOutput

Commit(op, name, r) ==
    /\ OutputBounded(r.W.fs)
    /\ fs' = r.W.fs
    /\ eng' = [figs |-> r.W.figs, ws |-> r.W.ws, diaryOn |-> r.W.diaryOn,
               diaryFile |-> r.W.diaryFile]
    /\ last' = [op |-> op, name |-> name, exc |-> r.exc, result |-> r.val,
                calls |-> r.W.calls, raised |-> r.W.raised, openBefore |-> eng.figs,
                trace |-> r.W.trace]
    /\ inflight' = inflight

\* MATLAB_DIR.mkdir(exist_ok=True); the engine is started with no figure
\* open, an empty workspace and the diary off.
Init ==
    /\ fs = EmptyDict
    /\ eng = [figs |-> {}, ws |-> EmptyDict, diaryOn |-> FALSE, diaryFile |-> <<>>]
    /\ last = [op |-> "init", name |-> <<>>, exc |-> NoExc, result |-> None,
               calls |-> 0, raised |-> {}, openBefore |-> {}, trace |-> <<>>]
    /\ created = EmptyDict
    /\ inflight = [p \in Procs |-> Idle]

\* filename without a trailing ".m": the name of the artifact.
ArtifactName(filename) ==
    IF EndsWith(filename, DotM) THEN SubSeq(filename, 1, Len(filename) - 2) ELSE filename

CreateMatlabFile(names, texts) ==
    \E filename \in names, code \in texts :
        LET r == create_matlab_file(World, filename, code)
        IN /\ Commit("create_matlab_file", ArtifactName(filename), r)
           /\ created' = IF Failed(r) THEN created
                         ELSE DictSet(created, ArtifactName(filename), code)

GetContents(names) ==
    \E script_name \in names :
        /\ Commit("get_contents", script_name, get_contents(World, script_name))
        /\ UNCHANGED created

ExecuteScript(inputs) ==
    \E i \in inputs :
        /\ Commit("execute_script", i[1], execute_script(World, i[1], i[2], i[3]))
        /\ UNCHANGED created

CallFunction(inputs) ==
    \E i \in inputs :
        /\ Commit("call_function", i[1], call_function(World, i[1], i[2], i[3]))
        /\ UNCHANGED created

EvaluateMatlabCode(inputs) ==
    \E i \in inputs :
        /\ Commit("evaluate_matlab_code", i[1], evaluate_matlab_code(World, i[1], i[2], i[3]))
        /\ UNCHANGED created

RunMatlabFile(inputs) ==
    \E i \in inputs :
        /\ Commit("run_matlab_file", i[1], run_matlab_file(World, i[1], i[2], i[3]))
        /\ UNCHANGED created

RunMatlabTestFile(inputs) ==
    \E i \in inputs :
        /\ Commit("run_matlab_test_file", i[1], run_matlab_test_file(World, i[1], i[2]))
        /\ UNCHANGED created

CheckMatlabCode(inputs) ==
    \E i \in inputs :
        /\ Commit("check_matlab_code", <<>>, check_matlab_code(World, i[1], i[2]))
        /\ UNCHANGED created

DetectMatlabToolboxes(inputs) ==
    \E x \in inputs :
        /\ Commit("detect_matlab_toolboxes", <<>>, detect_matlab_toolboxes(World, x))
        /\ UNCHANGED created

(***************************************************************************)
(* Spec: one artifact is created (as a script or as a function), read,     *)
(* and run through execute_script, call_function, evaluate_matlab_code and *)
(* run_matlab_file, one invocation after another.                          *)
(***************************************************************************)
Next ==
    \/ CreateMatlabFile({Name_a}, PipelineTexts)
    \/ GetContents({Name_a, Name_b})
    \/ ExecuteScript(ScriptInputs)
    \/ CallFunction(FunctionInputs)
    \/ EvaluateMatlabCode(EvaluateInputs)
    \/ RunMatlabFile(FileInputs)

Spec == Init /\ [][Next]_vars

(***************************************************************************)
(* SpecCapture: the four operations that start console capture, with an    *)
(* instruction raising before, inside and after the capture scope.         *)
(***************************************************************************)
CaptureRuns ==
    {Quiet, [Quiet EXCEPT !.out = ConsoleText]}
        \cup {[Quiet EXCEPT !.out = ConsoleText, !.fault = f] :
                 f \in {"close", "bind", "diary", "eval", "children"}}

NextCapture ==
    \/ CreateMatlabFile({Name_a}, PipelineTexts)
    \/ ExecuteScript({<<Name_a, args, x>> : args \in {NoArgs, SomeArgs}, x \in CaptureRuns})
    \/ CallFunction({<<Name_a, <<>>, x>> : x \in CaptureRuns})
    \/ RunMatlabTestFile(TestInputs)
    \/ DetectMatlabToolboxes(VerInputs)

SpecCapture == Init /\ [][NextCapture]_vars

(***************************************************************************)
(* SpecTemp: artifacts whose names are those of the temporary files, next  *)
(* to the operations that write and unlink temporary files.                *)
(***************************************************************************)
TempRuns == {Quiet, [Quiet EXCEPT !.out = ConsoleText]}

NextTemp ==
    \/ CreateMatlabFile({Name_a, Name_temp_output_a, Name_temp_syntax_check}, {ScriptText})
    \/ GetContents({Name_a, Name_temp_output_a, Name_temp_syntax_check})
    \/ ExecuteScript({<<Name_a, NoArgs, x>> : x \in TempRuns})
    \/ CallFunction({<<Name_a, <<>>, x>> : x \in TempRuns})
    \/ RunMatlabFile({<<Name_a, NoArgs, x>> : x \in TempRuns})
    \/ RunMatlabTestFile({<<Name_a, x>> : x \in TempRuns})
    \/ CheckMatlabCode(CheckInputs)
    \/ DetectMatlabToolboxes(TempRuns)

SpecTemp == Init /\ [][NextTemp]_vars

(***************************************************************************)
(* SpecCreate: creating artifacts and reading them back, over names valid  *)
(* and invalid and texts with and without line ends.                       *)
(***************************************************************************)
CreateNames == {Name_a, Name_a_m, Name_1a, Name__a, <<>>, Name_a_b, <<"_">>}
CreateTexts ==
    {<<>>, ScriptText, FunctionText, <<" ", "x", "LF">>, <<"x", "CR", "LF", "y">>,
     <<"x", "CR">>}
ReadNames == {Name_a, Name_1a, Name__a, Name_b}

NextCreate ==
    \/ CreateMatlabFile(CreateNames, CreateTexts)
    \/ GetContents(ReadNames)

SpecCreate == Init /\ [][NextCreate]_vars

(***************************************************************************)
(* SpecSnapshot: scripts that assign workspace variables (short and long   *)
(* texts, the reserved name args, names of result fields), run with args   *)
(* absent, empty and non-empty; the workspace persists between runs.       *)
(***************************************************************************)
\* A text of n characters.
LongText(n) == [i \in 1..n |-> "z"]

\* The texts the scripts assign to the variable v.
SnapshotTexts ==
    {ConsoleText, LongText(MAX_OUTPUT_LENGTH), LongText(MAX_OUTPUT_LENGTH + 1)}

Name_printed_output == K_printed_output
Name_figures == K_figures
\* A text longer than any sequence of figures.
FieldText == <<"9", "9", "9", "9", "9", "9", "9", "9", "9">>

AssigningRuns ==
    {[Quiet EXCEPT !.sets = DictSet(EmptyDict, VarName, PyStr(t))] : t \in SnapshotTexts}
        \cup {[Quiet EXCEPT !.sets = DictSet(EmptyDict, n, PyStr(FieldText))] :
                 n \in {ArgsName, Name_printed_output, Name_figures}}

SnapshotInputs ==
    {<<Name_a, args, x>> :
        args \in {NoArgs, EmptyArgs, SomeArgs},
        x \in AssigningRuns \cup {Quiet, Loud, [Loud EXCEPT !.fault = "eval"]}}

NextSnapshot ==
    \/ CreateMatlabFile({Name_a}, {ScriptText})
    \/ ExecuteScript(SnapshotInputs)

SpecSnapshot == Init /\ [][NextSnapshot]_vars

(***************************************************************************)
(* SpecInterleaved: two invocations of execute_script under way at once,   *)
(* as when the tools are served from more than one thread.  An invocation  *)
(* advances by one instruction to the interpreter or one file operation at *)
(* a time, and the steps of the two interleave in every order.             *)
(***************************************************************************)
InterleavedInputs ==
    {<<Name_a, args, x>> : args \in {NoArgs, SomeArgs, TwoArgs}, x \in {Quiet, Loud}}

InFlight(p) == inflight[p].pc \notin {"idle", "done", "raised"}

\* The directory, the interpreter and invocation p after a step of p that
\* leaves the world W.
Proceed(p, W, me) ==
    /\ fs' = W.fs
    /\ eng' = [figs |-> W.figs, ws |-> W.ws, diaryOn |-> W.diaryOn,
               diaryFile |-> W.diaryFile]
    /\ inflight' = [inflight EXCEPT ![p] = me]
    /\ UNCHANGED <<last, created>>

\* execute_script is entered and checks that the script exists.
Begin(p, inputs) ==
    \E i \in inputs :
        /\ ~InFlight(p)
        /\ Proceed(p, World,
                   [Idle EXCEPT !.name = i[1], !.args = i[2], !.x = i[3],
                                !.pc = IF Exists(fs, InDir(i[1] \o DotM))
                                       THEN "close" ELSE "raised"])

\* self.eng used under a lock that one invocation holds until it returns.
InterpreterFree_Locked(p) == \A q \in Procs \ {p} : ~InFlight(q)

\* execute_script takes no lock before it uses self.eng: an invocation may
\* send its next instruction whatever the other invocation is doing.
InterpreterFree(p) == TRUE

\* The next instruction invocation p sends to the interpreter.
InterpreterStep(p) ==
    /\ InterpreterFree(p)
    /\ \/ /\ inflight[p].pc = "close"
          /\ Proceed(p, EngCloseAll(World, inflight[p].x).W,
                     [inflight[p] EXCEPT
                        !.pc = IF Truthy(inflight[p].args) THEN "bind" ELSE "diary"])
       \/ /\ inflight[p].pc = "bind"
          /\ Proceed(p, EngSetWorkspace(World, inflight[p].x, ArgsName,
                                        _convert_to_matlab_types(inflight[p].args)).W,
                     [inflight[p] EXCEPT !.pc = "diary"])
       \/ /\ inflight[p].pc = "diary"
          /\ Proceed(p, OutputCaptureEnter(World, inflight[p].x, inflight[p].name).W,
                     [inflight[p] EXCEPT !.pc = "eval"])
       \/ /\ inflight[p].pc = "eval"
          /\ Proceed(p, EngRun(World, inflight[p].x, inflight[p].name).W,
                     [inflight[p] EXCEPT
                        !.pc = "diary_off",
                        !.seen = Event("eval", inflight[p].name, None, World, <<>>).bound])
       \/ /\ inflight[p].pc = "diary_off"
          /\ Proceed(p, EngDiaryOff(World), [inflight[p] EXCEPT !.pc = "read"])
       \/ /\ inflight[p].pc = "children"
          /\ Proceed(p, EngChildren(World, inflight[p].x).W,
                     [inflight[p] EXCEPT
                        !.n = Cardinality(eng.figs), !.i = 0,
                        !.pc = IF eng.figs = {} THEN "who" ELSE "saveas"])
       \/ /\ inflight[p].pc = "saveas"
          /\ Proceed(p, EngSaveas(World, inflight[p].x, inflight[p].i + 1,
                                  TempFigFile(inflight[p].i)).W,
                     [inflight[p] EXCEPT !.pc = "harvest"])
       \/ /\ inflight[p].pc = "who"
          /\ Proceed(p, _get_workspace_variables(World, inflight[p].x).W,
                     [inflight[p] EXCEPT
                        !.pc = "done",
                        !.result =
                            DictUpdate(DictSet(DictSet(EmptyDict, K_printed_output,
                                                       inflight[p].printed),
                                               K_figures, inflight[p].figures),
                                       _get_workspace_variables(World, inflight[p].x).val)])

\* The next file operation of invocation p: reading and unlinking the
\* capture file, or reading and unlinking the file of figure i; a figure
\* file that is gone makes open() raise, and execute_script raise.
FileStep(p) ==
    \/ /\ inflight[p].pc = "read"
       /\ Proceed(p, _read_captured_output(World, TempOutputFile(inflight[p].name)).W,
                  [inflight[p] EXCEPT
                     !.pc = "children",
                     !.printed = _read_captured_output(
                                     World, TempOutputFile(inflight[p].name)).val])
    \/ /\ inflight[p].pc = "harvest"
       /\ Proceed(p, [World EXCEPT !.fs = Unlink(@, TempFigFile(inflight[p].i))],
                  IF ~Exists(fs, TempFigFile(inflight[p].i))
                  THEN [inflight[p] EXCEPT !.pc = "raised"]
                  ELSE [inflight[p] EXCEPT
                          !.figures = Append(@, fs[TempFigFile(inflight[p].i)]),
                          !.i = @ + 1,
                          !.pc = IF inflight[p].i + 1 >= inflight[p].n
                                 THEN "who" ELSE "saveas"])

NextInterleaved ==
    \/ /\ \A p \in Procs : ~InFlight(p)
       /\ CreateMatlabFile({Name_a}, {ScriptText})
    \/ \E p \in Procs : Begin(p, InterleavedInputs)
    \/ \E p \in Procs : InterpreterStep(p)
    \/ \E p \in Procs : FileStep(p)

SpecInterleaved == Init /\ [][NextInterleaved]_vars

(***************************************************************************)
(* SpecMarshal: _convert_to_matlab_types applied to values built from      *)
(* None, booleans, integers, strings, sequences and mappings.              *)
(***************************************************************************)
Scalars == {None, PyBool(TRUE), PyBool(FALSE), PyInt(0), PyInt(1), PyStr(<<"s">>)}

FlatLists == {PyList(items) : items \in UNION {[1..n -> Scalars] : n \in 0..MaxSeqLen}}

MarshalValues ==
    Scalars \cup FlatLists
        \cup {PyList(<<l>>) : l \in FlatLists}
        \cup {PyDict(DictSet(EmptyDict, <<"k">>, v)) : v \in Scalars \cup FlatLists}
        \cup {TwoArgs}

ConvertToMatlabTypes(values) ==
    \E args \in values :
        /\ Commit("_convert_to_matlab_types", <<>>,
                  Ok(Log(World, Event("_convert_to_matlab_types", <<>>, args, World, <<>>)),
                     _convert_to_matlab_types(args)))
        /\ UNCHANGED created

NextMarshal == ConvertToMatlabTypes(MarshalValues)

SpecMarshal == Init /\ [][NextMarshal]_vars

(***************************************************************************)
(* SpecPaths: run_matlab_file on paths with a directory part.  When the    *)
(* server starts, the file system holds a file a.m outside the artifact    *)
(* directory and one in a directory below it, both scripts or both         *)
(* functions; create_matlab_file puts an a.m into the artifact directory.  *)
(***************************************************************************)
Outside_a == <<"/", "o", "/", "a">>
Below_a == <<"d", "/", "a">>

PathInputs ==
    {<<path, args, x>> :
        path \in {Name_a, Outside_a, Outside_a \o DotM, Below_a},
        args \in {NoArgs, SomeArgs},
        x \in {Quiet, Loud, [Loud EXCEPT !.fault = "eval"]}}

InitPaths ==
    /\ \E code \in PipelineTexts :
           fs = DictSet(DictSet(EmptyDict, Outside_a \o DotM, WriteText(code)),
                        InDir(Below_a \o DotM), WriteText(code))
    /\ eng = [figs |-> {}, ws |-> EmptyDict, diaryOn |-> FALSE, diaryFile |-> <<>>]
    /\ last = [op |-> "init", name |-> <<>>, exc |-> NoExc, result |-> None,
               calls |-> 0, raised |-> {}, openBefore |-> {}, trace |-> <<>>]
    /\ created = EmptyDict
    /\ inflight = [p \in Procs |-> Idle]

NextPaths ==
    \/ CreateMatlabFile({Name_a}, PipelineTexts)
    \/ RunMatlabFile(PathInputs)

SpecPaths == InitPaths /\ [][NextPaths]_vars

(***************************************************************************)
(* Properties.                                                             *)
(***************************************************************************)
RunOps == {"execute_script", "call_function"}

\* The file an operation resolves the name it was given to.
ResolvedFile(op, name) ==
    IF op = "run_matlab_file" THEN NormalizedPath(name) ELSE InDir(name \o DotM)

\* C1: after an execute_script or call_function invocation, returned or
\* raised, the capture file temp_output_<name>.m and every temp_fig_<i>.png
\* are absent from the directory.
C1_NoTempFileRemains ==
    last.op \in RunOps =>
        /\ ~Exists(fs, TempOutputFile(last.name))
        /\ \A i \in 0..MaxFig : ~Exists(fs, TempFigFile(i))

\* C2: every exception the interpreter raises in a step of execute_script or
\* call_function after name resolution reaches the caller as the one
\* execution error (RuntimeError) with the original message embedded.
C2_InterpreterErrorsWrapped ==
    (last.op \in RunOps /\ last.raised # {}) =>
        /\ last.exc.type = "RuntimeError"
        /\ EndsWith(last.exc.msg, InterpreterMsg)

\* C3: whenever an operation that starts console capture has returned or
\* raised, console capture in the interpreter is off.
C3_CaptureOffAfterOperation == ~eng.diaryOn

\* C3 witness: an execute_script whose evaluation raised inside the capture
\* scope has ended, and the capture it started into its file is off.
C3_Witness ==
    /\ last.op = "execute_script"
    /\ "eval" \in last.raised
    /\ eng.diaryFile = TempOutputFile(last.name)
    /\ ~eng.diaryOn

\* C4: execute_script, call_function and run_file on a name whose artifact
\* file does not exist fail with NotFound before any instruction is sent to
\* the interpreter, and leave the interpreter and the directory unchanged.
C4_MissingNameFailsFirst ==
    [][(/\ last'.op \in RunOps \cup {"run_matlab_file"}
        /\ ~Exists(fs, ResolvedFile(last'.op, last'.name)))
       => (/\ last'.exc.type = "FileNotFoundError"
           /\ last'.calls = 0
           /\ fs' = fs
           /\ eng' = eng)]_vars

\* C4 witness: execute_script on the name that has no artifact has failed
\* with NotFound while an artifact exists and a figure is open.
C4_Witness ==
    /\ last.op = "execute_script"
    /\ last.name = Name_b
    /\ last.exc.type = "FileNotFoundError"
    /\ last.calls = 0
    /\ DOMAIN fs # {}
    /\ eng.figs # {}

\* C5: the figures an execute_script or call_function invocation returns
\* were all opened during that invocation.
C5_ReturnedFiguresAreFresh ==
    (last.op \in RunOps /\ last.exc.type = "none") =>
        \A i \in DOMAIN last.result[K_figures] : last.result[K_figures][i][3] = "fresh"

\* C5 witness: an invocation that began with a figure left open by an
\* earlier one has returned figures.
C5_Witness ==
    /\ last.op \in RunOps
    /\ last.exc.type = "none"
    /\ last.openBefore # {}
    /\ last.result[K_figures] # <<>>

\* C6: an artifact written by create_matlab_file still exists, with the
\* content of its last create, after any sequence of the other operations.
C6_ArtifactsPersist ==
    \A name \in DOMAIN created :
        /\ Exists(fs, InDir(name \o DotM))
        /\ fs[InDir(name \o DotM)] = WriteText(created[name])

\* C7: reading the resource of an artifact returns exactly the text of its
\* last create.
C7_ReadReturnsCreatedText ==
    (last.op = "get_contents" /\ last.exc.type = "none" /\ last.name \in DOMAIN created) =>
        last.result = created[last.name]

\* A valid identifier: a letter followed by letters, digits or underscores.
IsValidIdentifier(s) ==
    /\ s # <<>>
    /\ s[1] \in AsciiLetters
    /\ \A i \in DOMAIN s : s[i] \in AsciiLetters \cup AsciiDigits \cup {"_"}

\* C8: create_matlab_file fails for every name that is not a valid identifier.
C8_InvalidNamesRejected ==
    (last.op = "create_matlab_file" /\ ~IsValidIdentifier(last.name)) =>
        last.exc.type = "ValueError"

\* C9: no sequence of create calls leaves a function artifact (an artifact
\* that call_function resolves and calls as a function) whose content does
\* not start, after trimming, with the function declaration.
C9_FunctionArtifactsHaveHeader ==
    (last.op = "call_function" /\ last.exc.type # "FileNotFoundError") =>
        IsFunctionFile([fs |-> fs], InDir(last.name \o DotM))

\* C10: when the interpreter raises while evaluating the artifact, the
\* boundary operations evaluate_matlab_code, run_matlab_file and
\* run_matlab_test_file return a record with an error field and do not raise.
C10_BoundaryReturnsErrorRecord ==
    (/\ last.op \in {"evaluate_matlab_code", "run_matlab_file", "run_matlab_test_file"}
     /\ "eval" \in last.raised)
    => (/\ last.exc.type = "none"
        /\ K_error \in DOMAIN last.result)

\* C11: the record execute_script returns never has the key args, whatever
\* the workspace holds and whatever ran before.
C11_SnapshotOmitsArgs ==
    (last.op = "execute_script" /\ last.exc.type = "none") =>
        ArgsName \notin DOMAIN last.result

\* C11 witness: execute_script has returned a snapshot holding the variable v
\* while args is bound in the workspace.
C11_Witness ==
    /\ last.op = "execute_script"
    /\ last.exc.type = "none"
    /\ ArgsName \in DOMAIN eng.ws
    /\ VarName \in DOMAIN last.result

\* The values of the mapping d in the order of its sorted keys.
KeyAt(d, i) == CHOOSE k \in DOMAIN d : Cardinality({j \in DOMAIN d : StrLess(j, k)}) = i - 1
ValuesBySortedKey(d) == [i \in 1..Cardinality(DOMAIN d) |-> d[KeyAt(d, i)]]

\* The entries of execute_script and call_function in a trace.
HandlerEntries(trace) ==
    SelectSeq(trace, LAMBDA ev : ev.e \in {"execute_script", "call_function"})

\* C12: run_file on an existing file enters exactly one of call_function and
\* execute_script, once, under the stem of the file: call_function with the
\* values of args in the order of their sorted keys (no values without args)
\* when the trimmed content starts with "function", execute_script with args
\* as given otherwise.
C12_RunFileDispatches ==
    (last.op = "run_matlab_file" /\ last.exc.type = "none") =>
        /\ Len(HandlerEntries(last.trace)) = 1
        /\ HandlerEntries(last.trace)[1].name = PathStem(NormalizedPath(last.name))
        /\ IF StartsWith(Strip(ReadText(fs[NormalizedPath(last.name)])), FunctionKeyword)
           THEN /\ HandlerEntries(last.trace)[1].e = "call_function"
                /\ HandlerEntries(last.trace)[1].args =
                       IF last.trace[1].args.t = "dict"
                       THEN ValuesBySortedKey(last.trace[1].args.d) ELSE <<>>
           ELSE /\ HandlerEntries(last.trace)[1].e = "execute_script"
                /\ HandlerEntries(last.trace)[1].args = last.trace[1].args

\* C12 witness: run_file has delegated a function file with a two-key
\* mapping to call_function.
C12_Witness ==
    /\ last.op = "run_matlab_file"
    /\ last.exc.type = "none"
    /\ Len(HandlerEntries(last.trace)) = 1
    /\ HandlerEntries(last.trace)[1].e = "call_function"
    /\ HandlerEntries(last.trace)[1].args = <<PyInt(2), PyInt(1)>>

\* The reference conversion: a mapping keeps its keys with converted values,
\* a sequence of numbers only becomes one dense array, any other sequence is
\* converted element by element, a number becomes a one-element dense array,
\* every other value (booleans and strings included) is unchanged.
RECURSIVE RefMarshal(_)
RefMarshal(x) ==
    CASE x.t = "dict" -> [t |-> "dict", d |-> [k \in DOMAIN x.d |-> RefMarshal(x.d[k])]]
      [] x.t = "list" ->
           IF \A i \in DOMAIN x.items : x.items[i].t = "int"
           THEN [t |-> "double", a |-> [i \in DOMAIN x.items |-> x.items[i].n]]
           ELSE [t |-> "list", items |-> [i \in DOMAIN x.items |-> RefMarshal(x.items[i])]]
      [] x.t = "int" -> [t |-> "double", a |-> <<x.n>>]
      [] OTHER -> x

\* C13: _convert_to_matlab_types(value) equals the reference conversion of value.
C13_MarshalIsReference ==
    last.op = "_convert_to_matlab_types" => last.result = RefMarshal(last.trace[1].args)

\* C14: in the snapshot execute_script returns, a value whose text is longer
\* than 1000 characters is its first 1000 characters followed by the
\* truncation marker, and a value of at most 1000 characters is unchanged.
C14_SnapshotTruncates ==
    (last.op = "execute_script" /\ last.exc.type = "none" /\ VarName \in DOMAIN eng.ws) =>
        last.result[VarName] =
            IF Len(eng.ws[VarName].s) > 1000
            THEN SubSeq(eng.ws[VarName].s, 1, 1000) \o TruncatedMarker
            ELSE eng.ws[VarName].s

\* C14 witness: a value of 1001 characters has been returned cut to 1000
\* characters and the marker.
C14_Witness ==
    /\ last.op = "execute_script"
    /\ last.exc.type = "none"
    /\ VarName \in DOMAIN eng.ws
    /\ Len(eng.ws[VarName].s) = 1001
    /\ Len(last.result[VarName]) = 1000 + Len(TruncatedMarker)

\* C15: execute_script holds no lock around the interpreter: whenever an
\* invocation is under way, the other invocation's next instruction to the
\* interpreter can be sent as well, whatever it is.
C15_NoLockAroundInterpreter ==
    \A p \in Procs :
        (inflight[p].pc \in {"close", "bind", "diary", "eval", "diary_off", "children",
                              "saveas", "who"})
            => ENABLED InterpreterStep(p)

\* C15 witness: an invocation whose script opened figure 1 has returned with
\* no figure, the other invocation having cleared the figures in between.
C15_Witness ==
    \E p \in Procs :
        /\ inflight[p].pc = "done"
        /\ inflight[p].x.figs = {1}
        /\ inflight[p].result[K_figures] = <<>>

\* The temporary files invocation p is using: the capture file from the
\* start of the diary until it is read and unlinked, the file of a figure
\* from saveas until it is read and unlinked.
TempFilesInUse(p) ==
    (IF inflight[p].pc \in {"eval", "diary_off", "read"}
     THEN {TempOutputFile(inflight[p].name)} ELSE {})
        \cup (IF inflight[p].pc = "harvest" THEN {TempFigFile(inflight[p].i)} ELSE {})

\* C16: no two invocations under way at the same time use the same capture
\* file or the same figure file.
C16_TempFilesUnique ==
    \A p \in Procs, q \in Procs :
        p # q => TempFilesInUse(p) \cap TempFilesInUse(q) = {}

\* The runs of code as a plain script ("eval") in a trace.
ScriptRuns(trace) == SelectSeq(trace, LAMBDA ev : ev.e = "eval")

\* The file of a test run was executed exactly once as a plain script, with
\* capture into the test capture file on, the operation returned a record,
\* and capture is off.
FellBackOnce ==
    /\ Len(ScriptRuns(last.trace)) = 1
    /\ ScriptRuns(last.trace)[1].diaryOn
    /\ ScriptRuns(last.trace)[1].diaryFile = TempOutputFile(TestIdentifier)
    /\ last.exc.type = "none"
    /\ ~eng.diaryOn

\* The record of a test run reports the fallback, with no test counted.
ReportsFallback ==
    /\ StartsWith(last.result[K_output], TestFallbackNotice)
    /\ last.result[K_passed] = 0
    /\ last.result[K_failed] = 0
    /\ last.result[K_total] = 0

\* C17 as stated: whenever runtests raises, run_matlab_test_file executes the
\* file once as a plain script inside the capture scope and returns a record
\* that reports the fallback with passed, failed and total 0; if the plain
\* execution raises too, it returns a record with an error field; capture is off.
C17_FallbackAlwaysReported ==
    (last.op = "run_matlab_test_file" /\ "runtests" \in last.raised) =>
        /\ FellBackOnce
        /\ IF "eval" \in last.raised
           THEN K_error \in DOMAIN last.result
           ELSE ReportsFallback

\* C17 amended: the record reports the fallback when no later step raises;
\* when the plain execution or a later step (harvesting the figures) raises,
\* the record has an error field and its output is the exception's message.
C17_FallbackReportedUnlessLaterRaise ==
    (last.op = "run_matlab_test_file" /\ "runtests" \in last.raised) =>
        /\ FellBackOnce
        /\ IF last.raised = {"runtests"}
           THEN ReportsFallback /\ K_error \notin DOMAIN last.result
           ELSE K_error \in DOMAIN last.result /\ last.result[K_output] = InterpreterMsg

\* C17 witness: runtests raised, the file ran as a plain script writing to
\* the console, and the record that came back reports the fallback.
C17_Witness ==
    /\ last.op = "run_matlab_test_file"
    /\ last.raised = {"runtests"}
    /\ FellBackOnce
    /\ ScriptRuns(last.trace)[1].out = ConsoleText
    /\ ReportsFallback

\* The console text written by the code the interpreter ran or called in a trace.
ConsoleOutputOf(trace) ==
    SelectSeq(trace, LAMBDA ev : ev.e \in {"eval", "call"})[1].out

\* C18: the printed_output of a successful execute_script or call_function
\* is the console text produced during that invocation (trimmed), or the
\* no-output notice when it produced none, whatever invocations came before.
C18_PrintedOutputIsOwn ==
    (last.op \in RunOps /\ last.exc.type = "none") =>
        \/ last.result[K_printed_output] = Strip(ConsoleOutputOf(last.trace))
        \/ /\ ConsoleOutputOf(last.trace) = <<>>
           /\ last.result[K_printed_output] = NoOutputCaptured

\* The entries of kind e in a trace.
Entries(trace, e) == SelectSeq(trace, LAMBDA ev : ev.e = e)

\* C19: in every record execute_script returns, printed_output is the text
\* _read_captured_output returned and figures is the sequence
\* _capture_figures returned, whatever the workspace holds.
C19_FieldsNotReplaced ==
    (last.op = "execute_script" /\ last.exc.type = "none") =>
        /\ last.result[K_printed_output] = Entries(last.trace, "captured")[1].out
        /\ last.result[K_figures] = Entries(last.trace, "figures")[1].args

\* C20: the binding of the workspace name args that the script of an
\* execute_script invocation is evaluated under is the converted args when
\* args is a non-empty mapping, and the binding from before the invocation
\* (none, if there was none) when args is absent or an empty mapping.
C20_ArgsBoundOnlyWhenGiven ==
    [][(last'.op = "execute_script" /\ Len(ScriptRuns(last'.trace)) = 1)
       => ScriptRuns(last'.trace)[1].bound =
              IF last'.trace[1].args.t = "dict" /\ DOMAIN last'.trace[1].args.d # {}
              THEN _convert_to_matlab_types(last'.trace[1].args)
              ELSE IF ArgsName \in DOMAIN eng.ws THEN eng.ws[ArgsName] ELSE None]_vars

\* C20 witness: a script run without args has been evaluated under the
\* mapping an earlier invocation bound.
C20_Witness ==
    /\ last.op = "execute_script"
    /\ last.trace[1].args = None
    /\ Len(ScriptRuns(last.trace)) = 1
    /\ ScriptRuns(last.trace)[1].bound.t = "dict"

\* The entries of a trace at which the interpreter ran an artifact.
InterpreterRuns(trace) == SelectSeq(trace, LAMBDA ev : ev.e \in {"eval", "call"})

\* C21: whenever a run_file invocation has the interpreter run something,
\* the file that the delegated execute_script or call_function resolves from
\* the stem is the file whose content run_file read to choose between them.
C21_RunsInspectedFile ==
    (last.op = "run_matlab_file" /\ InterpreterRuns(last.trace) # <<>>) =>
        ResolvedFile(HandlerEntries(last.trace)[1].e, HandlerEntries(last.trace)[1].name)
            = Entries(last.trace, "read_text")[1].name

====
